---- MODULE Spec2Model ----
(***************************************************************************)
(* Model of scripts/build.js, the static site generator of MyWebClips.     *)
(*                                                                         *)
(* A JavaScript string is modelled as a sequence of tokens.  A token is    *)
(* either one character ("a", "%", "-"), or an indivisible piece of text   *)
(* that the program only ever handles whole: a literal of one of the       *)
(* template strings of build.js, or one of the three placeholder markers.  *)
(* The character alphabet of file names holds no "<", so the text of a     *)
(* marker can only occur as the whole marker token.  Two characters that   *)
(* TLA+ strings cannot hold are named: EM_DASH (U+2014) and FW_COLON       *)
(* (U+FF1A).                                                               *)
(***************************************************************************)
EXTENDS Naturals, Integers, Sequences, FiniteSets, TLC

VARIABLES
    file,            \* SpecParse: the argument of getArticleFromFilename
    article,         \* SpecParse: its result (null before the call)
    pc,              \* SpecParse, SpecPagination: "call" before the call, "done" after it
    currentPage,     \* SpecPagination: arguments of generatePaginationHtml
    totalPages,
    paginationHtml,  \* SpecPagination: its result (empty before the call)
    pagesDir,        \* Spec: the source directory (its listing in OS order), null if missing
    template,        \* Spec: the contents of the template file, null if missing
    clock,           \* Spec: the calendar year new Date() reports
    site,            \* Spec: the output tree _site (a set of <<path, bytes>>), null if missing
    exit,            \* Spec: how the last run ended: "none", "ok" or "error"
    templateRead,    \* Spec: whether the last run read the template file
    built,           \* Spec: the locals of each iteration of the page loop of the last run
    lastRunYear,     \* Spec: the year in which the last run took place
    stale,           \* Spec: how many page files of an earlier build the last run
                     \*       removed and did not write again
    rerun,           \* Spec: whether the last run followed a run without an edit between
    edited           \* Spec: whether the source was changed after the last run

vars == <<file, article, pc, currentPage, totalPages, paginationHtml,
          pagesDir, template, clock, site, exit, templateRead, built,
          lastRunYear, stale, rerun, edited>>

parseVars == <<file, article>>

paginationVars == <<currentPage, totalPages, paginationHtml>>
buildVars == <<pagesDir, template, clock, site, exit, templateRead, built,
               lastRunYear, stale, rerun, edited>>

\* A value that may be null is a sequence of at most one element: null is the
\* empty one, and an object r is <<r>>.
null == <<>>
Some(r) == <<r>>

-----------------------------------------------------------------------------
(* Strings *)

EM_DASH == "U+2014"
FW_COLON == "U+FF1A"
LF == "\n"

Digits == {"0", "1", "2", "3", "4", "5", "6", "7", "8", "9"}

\* The line terminators of ECMAScript, which "." of a regular expression
\* (without the s flag) does not match; LF is the one the alphabet holds.
LineTerminators == {LF, "\r", "U+2028", "U+2029"}

INDEX_HTML == <<"i", "n", "d", "e", "x", ".", "h", "t", "m", "l">>
DOT_HTML == <<".", "h", "t", "m", "l">>
PCT_20 == <<"%", "2", "0">>
PCT_EM_DASH == <<"%", "E", "2", "%", "8", "0", "%", "9", "4">>
PCT_FW_COLON == <<"%", "E", "F", "%", "B", "C", "%", "9", "A">>

\* String.prototype.startsWith / endsWith, and "pat occurs in s at index i".
MatchesAt(s, pat, i) ==
    /\ i >= 1
    /\ i + Len(pat) - 1 <= Len(s)
    /\ \A k \in 1..Len(pat) : s[i + k - 1] = pat[k]

endsWith(s, suffix) == MatchesAt(s, suffix, Len(s) - Len(suffix) + 1)

\* The index of the first occurrence of pat in s, 0 when there is none.
IndexOf(s, pat) ==
    LET hits == {i \in 1..Len(s) : MatchesAt(s, pat, i)}
    IN  IF hits = {} THEN 0 ELSE CHOOSE i \in hits : \A j \in hits : i <= j

\* s.replace(/pat/g, rep) for a literal pattern and a replacement without "$":
\* every occurrence, scanning left to right, occurrences not overlapping.
RECURSIVE ReplaceAllFrom(_, _, _, _)
ReplaceAllFrom(s, pat, rep, i) ==
    IF i > Len(s) THEN <<>>
    ELSE IF MatchesAt(s, pat, i)
         THEN rep \o ReplaceAllFrom(s, pat, rep, i + Len(pat))
         ELSE <<s[i]>> \o ReplaceAllFrom(s, pat, rep, i + 1)

ReplaceAll(s, pat, rep) == ReplaceAllFrom(s, pat, rep, 1)

-----------------------------------------------------------------------------
(* getArticleFromFilename *)

\* file.match(/^(\d{4}-\d{2}-\d{2})-/): \d is an ASCII digit.
DatePrefixLen == 11
dateMatch(f) ==
    /\ Len(f) >= DatePrefixLen
    /\ \A i \in 1..DatePrefixLen :
          IF i \in {5, 8, 11} THEN f[i] = "-" ELSE f[i] \in Digits

\* .replace(/^\d{4}-\d{2}-\d{2}-/, '')
StripDatePrefix(s) ==
    IF dateMatch(s) THEN SubSeq(s, DatePrefixLen + 1, Len(s)) ELSE s

\* .replace(/\.html$/, ''): "$" without the m flag is the end of the input.
StripHtmlSuffix(s) ==
    IF endsWith(s, DOT_HTML) THEN SubSeq(s, 1, Len(s) - Len(DOT_HTML)) ELSE s

\* titleOf with the first escape replaced once instead of everywhere.
titleOf_firstOnly(f) ==
    LET raw == StripHtmlSuffix(StripDatePrefix(f))
        i == IndexOf(raw, PCT_20)
        once == IF i = 0 THEN raw
                ELSE SubSeq(raw, 1, i - 1) \o <<" ">> \o SubSeq(raw, i + Len(PCT_20), Len(raw))
    IN  ReplaceAll(ReplaceAll(once, PCT_EM_DASH, <<EM_DASH>>), PCT_FW_COLON, <<FW_COLON>>)

titleOf(f) ==
    ReplaceAll(
        ReplaceAll(
            ReplaceAll(StripHtmlSuffix(StripDatePrefix(f)), PCT_20, <<" ">>),
            PCT_EM_DASH, <<EM_DASH>>),
        PCT_FW_COLON, <<FW_COLON>>)

\* getArticleFromFilename without the test of the ".html" ending.
getArticleFromFilename_anySuffix(f) ==
    IF f = INDEX_HTML THEN null
    ELSE IF ~dateMatch(f) THEN null
    ELSE Some([title |-> titleOf(f),
               date |-> SubSeq(f, 1, DatePrefixLen - 1),
               path |-> <<"pages/">> \o f,
               filename |-> f])

getArticleFromFilename(f) ==
    IF f = INDEX_HTML \/ ~endsWith(f, DOT_HTML) THEN null
    ELSE IF ~dateMatch(f) THEN null
    ELSE Some([title |-> titleOf(f),
               date |-> SubSeq(f, 1, DatePrefixLen - 1),
               path |-> <<"pages/">> \o f,
               filename |-> f])

-----------------------------------------------------------------------------
(* generatePaginationHtml *)

\* The literals of its template strings, each one token.  The labels are
\* Chinese text in the source ("previous page", "next page", "page n / m").
PAGINATION_OPEN == "<div class=\"pagination\">"
A_HREF == "<a href=\""
PREV_LABEL == "\" class=\"pagination-link\">[U+00AB] [previous page]</a>"
NEXT_LABEL == "\" class=\"pagination-link\">[next page] [U+00BB]</a>"
CURRENT_OPEN == "<span class=\"pagination-current\">[page] "
CURRENT_SEP == " / "
CURRENT_CLOSE == " [of pages]</span>"
DIV_CLOSE == "</div>"

\* `/archives/${n}/`: the number is converted to its decimal text.
ArchivesUrl(n) == <<"/archives/", ToString(n), "/">>

\* generatePaginationHtml with the root path given to the wrong page.
generatePaginationHtml_rootForPage1(cur, total) ==
    LET prev == IF cur > 1
                THEN <<A_HREF>> \o (IF cur = 1 THEN <<"/">> ELSE ArchivesUrl(cur - 1))
                     \o <<PREV_LABEL>>
                ELSE <<>>
        next == IF cur < total
                THEN <<A_HREF>> \o ArchivesUrl(cur + 1) \o <<NEXT_LABEL>>
                ELSE <<>>
    IN  <<PAGINATION_OPEN>> \o prev
        \o <<CURRENT_OPEN, ToString(cur), CURRENT_SEP, ToString(total), CURRENT_CLOSE>>
        \o next \o <<DIV_CLOSE>>

generatePaginationHtml(cur, total) ==
    LET prevPagePath == IF cur = 2 THEN <<"/">> ELSE ArchivesUrl(cur - 1)
        prev == IF cur > 1
                THEN <<A_HREF>> \o prevPagePath \o <<PREV_LABEL>>
                ELSE <<>>
        nextPagePath == ArchivesUrl(cur + 1)
        next == IF cur < total
                THEN <<A_HREF>> \o nextPagePath \o <<NEXT_LABEL>>
                ELSE <<>>
    IN  <<PAGINATION_OPEN>> \o prev
        \o <<CURRENT_OPEN, ToString(cur), CURRENT_SEP, ToString(total), CURRENT_CLOSE>>
        \o next \o <<DIV_CLOSE>>

-----------------------------------------------------------------------------
(* generateArticlesHtml *)

\* escapeHtml: text.replace(/"/g, '&quot;')
escapeHtml(text) == ReplaceAll(text, <<"\"">>, <<"&", "q", "u", "o", "t", ";">>)

\* The UTF-16 code units of the characters a date holds ("-" and the digits),
\* by which Array.prototype.sort() without a comparator orders strings.
CodeUnit(c) ==
    CASE c = "-" -> 45
      [] c = "0" -> 48 [] c = "1" -> 49 [] c = "2" -> 50 [] c = "3" -> 51
      [] c = "4" -> 52 [] c = "5" -> 53 [] c = "6" -> 54 [] c = "7" -> 55
      [] c = "8" -> 56 [] c = "9" -> 57

\* a < b in the order of code units.
RECURSIVE CodeUnitLess(_, _)
CodeUnitLess(a, b) ==
    IF b = <<>> THEN FALSE
    ELSE IF a = <<>> THEN TRUE
    ELSE IF a[1] # b[1] THEN CodeUnit(a[1]) < CodeUnit(b[1])
    ELSE CodeUnitLess(Tail(a), Tail(b))

\* Object.keys(groupedByDate).sort().reverse(): the dates of the articles,
\* each once, greatest first.
RECURSIVE SortReverse(_)
SortReverse(keys) ==
    IF keys = {} THEN <<>>
    ELSE LET top == CHOOSE k \in keys : \A o \in keys \ {k} : CodeUnitLess(o, k)
         IN  <<top>> \o SortReverse(keys \ {top})

\* The literals of the template strings, each one token ("copy link" is
\* Chinese text in the source).
GROUP_OPEN == "\n<div class=\"date-group\">\n    <div class=\"date-header\">"
GROUP_HEAD_CLOSE == "</div>\n    <ul class=\"article-list\">\n"
ITEM_OPEN == "\n        <li class=\"article-item\">\n            <a href=\"/"
ITEM_LINK == "\" target=\"_blank\" class=\"article-link\">"
ITEM_BUTTON == "</a>\n            <button class=\"copy-btn\" data-title=\""
ITEM_DATA_PATH == "\" data-path=\""
ITEM_CLOSE == "\">[copy link]</button>\n        </li>\n"
GROUP_CLOSE == "    </ul>\n</div>\n"

ItemHtml(a) ==
    <<ITEM_OPEN>> \o a.path \o <<ITEM_LINK>> \o a.title
    \o <<ITEM_BUTTON>> \o escapeHtml(a.title) \o <<ITEM_DATA_PATH>> \o a.path
    \o <<ITEM_CLOSE>>

RECURSIVE ItemsHtml(_)
ItemsHtml(group) ==
    IF group = <<>> THEN <<>>
    ELSE ItemHtml(Head(group)) \o ItemsHtml(Tail(group))

\* groupedByDate[date]: the articles of that date, in the order they came.
groupedByDate(articles, date) == SelectSeq(articles, LAMBDA a : a.date = date)

RECURSIVE GroupsHtml(_, _)
GroupsHtml(articles, dates) ==
    IF dates = <<>> THEN <<>>
    ELSE <<GROUP_OPEN>> \o Head(dates) \o <<GROUP_HEAD_CLOSE>>
         \o ItemsHtml(groupedByDate(articles, Head(dates)))
         \o <<GROUP_CLOSE>>
         \o GroupsHtml(articles, Tail(dates))

generateArticlesHtml(articles) ==
    GroupsHtml(articles, SortReverse({articles[k].date : k \in 1..Len(articles)}))

-----------------------------------------------------------------------------
(* run *)

POSTS_PER_PAGE == 10

ARCHIVES_PLACEHOLDER == "<!-- ARCHIVES_PLACEHOLDER -->"
PAGINATION_PLACEHOLDER == "<!-- PAGINATION_PLACEHOLDER -->"
YEAR_PLACEHOLDER == "<!-- YEAR_PLACEHOLDER -->"

\* String.prototype.localeCompare with the default (root) collation of ICU.
\* Strings are compared by the primary weights of their characters first:
\* white space, punctuation, symbols, currency signs, digits, letters, a
\* letter of either case weighing the same.  CollationOrder lists the
\* tokens of file names by ascending primary weight.  Only strings equal
\* in all primary weights are told apart by case, lower case first.
CollationOrder ==
    << LF, " ", "-", ".", "\"", "&", "%", PAGINATION_PLACEHOLDER, "$",
       "0", "1", "2", "3", "4", "5", "6", "7", "8", "9",
       "a", "b", "c", "d", "e", "f", "h", "i", "l", "m", "n", "o", "s", "t",
       "v", "x" >>

UpperCase == {"A", "B", "C", "E", "F", "H", "L", "M", "T"}

ToLower(c) ==
    CASE c = "A" -> "a" [] c = "B" -> "b" [] c = "C" -> "c" [] c = "E" -> "e"
      [] c = "F" -> "f" [] c = "H" -> "h" [] c = "L" -> "l" [] c = "M" -> "m"
      [] c = "T" -> "t" [] OTHER -> c

\* The characters of file names (a marker counts as one).
Alphabet == {CollationOrder[k] : k \in 1..Len(CollationOrder)} \cup UpperCase

PrimaryWeights ==
    [c \in Alphabet |->
        CHOOSE k \in 1..Len(CollationOrder) : CollationOrder[k] = ToLower(c)]

PrimaryWeight(c) == PrimaryWeights[c]

TertiaryWeight(c) == IF c \in UpperCase THEN 1 ELSE 0

\* -1, 0 or 1 as a comes before, with or after b when their characters from
\* the k-th on are compared by primary weight (a shorter string first).
RECURSIVE ComparePrimary(_, _, _)
ComparePrimary(a, b, k) ==
    IF k > Len(a) /\ k > Len(b) THEN 0
    ELSE IF k > Len(a) THEN -1
    ELSE IF k > Len(b) THEN 1
    ELSE IF a[k] = b[k] THEN ComparePrimary(a, b, k + 1)
    ELSE IF PrimaryWeight(a[k]) < PrimaryWeight(b[k]) THEN -1
    ELSE IF PrimaryWeight(a[k]) > PrimaryWeight(b[k]) THEN 1
    ELSE ComparePrimary(a, b, k + 1)

\* The same by tertiary weight, for strings equal in primary weights.
RECURSIVE CompareTertiary(_, _, _)
CompareTertiary(a, b, k) ==
    IF k > Len(a) \/ k > Len(b) THEN 0
    ELSE IF TertiaryWeight(a[k]) < TertiaryWeight(b[k]) THEN -1
    ELSE IF TertiaryWeight(a[k]) > TertiaryWeight(b[k]) THEN 1
    ELSE CompareTertiary(a, b, k + 1)

localeCompare(a, b) ==
    LET primary == ComparePrimary(a, b, 1)
    IN  IF primary # 0 THEN primary ELSE CompareTertiary(a, b, 1)

\* The comparator with its operands the other way round: ascending.
byFilenameAscending(a, b) == localeCompare(a.filename, b.filename)

\* The comparator of the sort of run: (a, b) => b.filename.localeCompare(a.filename)
byFilenameDescending(a, b) == localeCompare(b.filename, a.filename)

\* Array.prototype.sort with that comparator: a stable sort; x goes after
\* every element that the comparator does not put after it.
InsertSorted(sorted, x) ==
    LET later == {k \in 1..Len(sorted) : byFilenameDescending(sorted[k], x) > 0}
        at == IF later = {} THEN Len(sorted) + 1
              ELSE CHOOSE k \in later : \A j \in later : k <= j
    IN  SubSeq(sorted, 1, at - 1) \o <<x>> \o SubSeq(sorted, at, Len(sorted))

RECURSIVE sort(_)
sort(seq) ==
    IF seq = <<>> THEN <<>>
    ELSE InsertSorted(sort(SubSeq(seq, 1, Len(seq) - 1)), seq[Len(seq)])

\* allFiles.map(getArticleFromFilename).filter(Boolean)
RECURSIVE MapFilter(_)
MapFilter(allFiles) ==
    IF allFiles = <<>> THEN <<>>
    ELSE getArticleFromFilename(Head(allFiles)) \o MapFilter(Tail(allFiles))

allArticlesOf(allFiles) == sort(MapFilter(allFiles))

\* Math.ceil(n / POSTS_PER_PAGE)
totalPagesOf(n) == (n + POSTS_PER_PAGE - 1) \div POSTS_PER_PAGE

\* Array.prototype.slice(startIndex, endIndex), indices from 0, end excluded.
slice(seq, startIndex, endIndex) ==
    SubSeq(seq, startIndex + 1, IF endIndex < Len(seq) THEN endIndex ELSE Len(seq))

\* The page slice taken one article too far to the right.
pageArticlesOf_offByOne(allArticles, i) ==
    slice(allArticles, (i - 1) * POSTS_PER_PAGE + 1, (i - 1) * POSTS_PER_PAGE + 1 + POSTS_PER_PAGE)

pageArticlesOf(allArticles, i) ==
    LET startIndex == (i - 1) * POSTS_PER_PAGE
        endIndex == startIndex + POSTS_PER_PAGE
    IN  slice(allArticles, startIndex, endIndex)

\* The concatenation of pieces[lo], ..., pieces[hi].
RECURSIVE Concat(_, _, _)
Concat(pieces, lo, hi) ==
    IF lo > hi THEN <<>>
    ELSE IF lo = hi THEN pieces[lo]
    ELSE LET mid == (lo + hi) \div 2
         IN  Concat(pieces, lo, mid) \o Concat(pieces, mid + 1, hi)

\* GetSubstitution of ECMAScript for a pattern without capture groups: the
\* replacement is read left to right; $$ stands for a "$", $& for the matched
\* text, $` for the text before the match, $' for the text after it, and any
\* other token for itself.  A "$" opens such a pair when a character of $&`'
\* follows it and it is not itself the second half of a pair, that is, when
\* an even number of "$" stand directly before it.
GetSubstitution(replacement, matched, before, after) ==
    LET n == Len(replacement)
        DollarsBefore(k) ==
            LET r == CHOOSE q \in 1..k :
                        /\ \A j \in q..(k - 1) : replacement[j] = "$"
                        /\ (q = 1 \/ replacement[q - 1] # "$")
            IN  k - r
        Opens(k) ==
            /\ replacement[k] = "$"
            /\ k < n
            /\ replacement[k + 1] \in {"$", "&", "`", "'"}
            /\ DollarsBefore(k) % 2 = 0
        Piece(k) ==
            IF Opens(k)
            THEN CASE replacement[k + 1] = "$" -> <<"$">>
                   [] replacement[k + 1] = "&" -> matched
                   [] replacement[k + 1] = "`" -> before
                   [] replacement[k + 1] = "'" -> after
            ELSE IF k > 1 /\ Opens(k - 1) THEN <<>>
            ELSE <<replacement[k]>>
    IN  Concat([k \in 1..n |-> Piece(k)], 1, n)

\* String.prototype.replace(pattern, replacement) with a string pattern: the
\* first occurrence only, the replacement expanded by GetSubstitution.
replace(str, pattern, replacement) ==
    LET pos == IndexOf(str, <<pattern>>)
        before == SubSeq(str, 1, pos - 1)
        after == SubSeq(str, pos + 1, Len(str))
    IN  IF pos = 0 THEN str
        ELSE before \o GetSubstitution(replacement, <<pattern>>, before, after) \o after

finalHtmlOf(tpl, articlesHtml, pagHtml, currentYear) ==
    replace(
        replace(
            replace(tpl, ARCHIVES_PLACEHOLDER, articlesHtml),
            PAGINATION_PLACEHOLDER, pagHtml),
        YEAR_PLACEHOLDER, <<ToString(currentYear)>>)

\* Paths are sequences of components, each component a string (a sequence of
\* tokens); they are relative to siteDir.
ARCHIVES == <<"a", "r", "c", "h", "i", "v", "e", "s">>
PAGES == <<"p", "a", "g", "e", "s">>

\* pageOutputDir of page i, as archives/<i> for every page.
pageOutputDirOf_alwaysArchives(i) == <<ARCHIVES, <<ToString(i)>>>>

pageOutputDirOf(i) == IF i = 1 THEN <<>> ELSE <<ARCHIVES, <<ToString(i)>>>>

\* The locals of iteration i of the page loop.
PageOf(allArticles, tpl, currentYear, i) ==
    LET pageArticles == pageArticlesOf(allArticles, i)
        articlesHtml == generateArticlesHtml(pageArticles)
        pagHtml == generatePaginationHtml(i, totalPagesOf(Len(allArticles)))
    IN  [pageArticles |-> pageArticles,
         articlesHtml |-> articlesHtml,
         paginationHtml |-> pagHtml,
         finalHtml |-> finalHtmlOf(tpl, articlesHtml, pagHtml, currentYear),
         pageOutputDir |-> pageOutputDirOf(i)]

\* fs.cpSync(pagesDir, siteDir/pages, {recursive: true}): every entry of the
\* source directory, with its bytes, under pages/.
BytesOf(f) == <<"[bytes of]">> \o f
CopyOf(listing) ==
    { <<<<PAGES, listing[k]>>, BytesOf(listing[k])>> : k \in 1..Len(listing) }

\* writeFileSync as appendFileSync onto the file the previous build left.
WriteFile_append(tree, path, data) ==
    LET old == IF site = null THEN {} ELSE {e \in site[1] : e[1] = path}
    IN  { e \in tree : e[1] # path }
        \cup { <<path, (IF old = {} THEN <<>> ELSE (CHOOSE e \in old : TRUE)[2]) \o data>> }

\* fs.writeFileSync(path, data) on a tree: the file at path holds data.
WriteFile(tree, path, data) ==
    { e \in tree : e[1] # path } \cup { <<path, data>> }

\* The page loop: page i is written to index.html in its output directory.
RECURSIVE WritePages(_, _, _)
WritePages(tree, pages, i) ==
    IF i > Len(pages) THEN tree
    ELSE WritePages(
             WriteFile(tree, pages[i].pageOutputDir \o <<INDEX_HTML>>, pages[i].finalHtml),
             pages, i + 1)

\* run without the removal of the old output tree.
siteAfterClean_keep(old) == IF old = null THEN {} ELSE old[1]

\* fs.rmSync(siteDir, {recursive, force}); fs.mkdirSync(siteDir): an empty tree.
siteAfterClean(old) == {}

\* The test of line 110 never stopping the build.
noArticles_never(allArticles) == FALSE

noArticles(allArticles) == Len(allArticles) = 0

\* One run of the program: the output tree it leaves, how it ends, and
\* whether it read the template.
run(old, dir, tpl, year) ==
    LET cleaned == siteAfterClean(old)
    IN  IF dir = null
        THEN \* cpSync throws: the source directory does not exist
             [site |-> cleaned, exit |-> "error", templateRead |-> FALSE, built |-> <<>>]
        ELSE LET allFiles == dir[1]
                 copied == cleaned \cup CopyOf(allFiles)
                 allArticles == allArticlesOf(allFiles)
             IN  IF noArticles(allArticles)
                 THEN [site |-> copied, exit |-> "ok", templateRead |-> FALSE,
                       built |-> <<>>]
                 ELSE IF tpl = null
                 THEN \* readFileSync throws: the template does not exist
                      [site |-> copied, exit |-> "error", templateRead |-> TRUE,
                       built |-> <<>>]
                 ELSE LET pages == [i \in 1..totalPagesOf(Len(allArticles)) |->
                                       PageOf(allArticles, tpl[1], year, i)]
                      IN  [site |-> WritePages(copied, pages, 1), exit |-> "ok",
                           templateRead |-> TRUE,
                           built |-> [i \in 1..Len(pages) |->
                               [pageArticles |-> pages[i].pageArticles,
                                articlesHtml |-> pages[i].articlesHtml,
                                paginationHtml |-> pages[i].paginationHtml]]]

\* The paths of the files of a tree, or of no tree, outside pages/.
PagePathsOf(tree) ==
    IF tree = null THEN {} ELSE {e[1] : e \in {x \in tree[1] : x[1][1] # PAGES}}

Run ==
    LET r == run(site, pagesDir, template, clock)
    IN  /\ site' = Some(r.site)
        /\ exit' = r.exit
        /\ templateRead' = r.templateRead
        /\ built' = r.built
        /\ lastRunYear' = clock
        /\ stale' = Cardinality(PagePathsOf(site) \ PagePathsOf(Some(r.site)))
        /\ rerun' = (exit # "none" /\ ~edited)
        /\ edited' = FALSE
        /\ UNCHANGED <<pagesDir, template, clock, pc, parseVars, paginationVars>>

-----------------------------------------------------------------------------
(* The variables a specification does not use stay at these values. *)

BuildIdle ==
    /\ pagesDir = null
    /\ template = null
    /\ clock = 0
    /\ site = null
    /\ exit = "none"
    /\ templateRead = FALSE
    /\ built = <<>>
    /\ lastRunYear = 0
    /\ stale = 0
    /\ rerun = FALSE
    /\ edited = FALSE

PaginationIdle ==
    /\ currentPage = 0
    /\ totalPages = 0
    /\ paginationHtml = <<>>

ParseIdle ==
    /\ file = <<>>
    /\ article = null

-----------------------------------------------------------------------------
(* Spec: builds of a site whose source changes between them *)

MaxPages == 3
PerDate == 3
FirstYear == 2024
LastYear == 2025

\* The d-th day of the corpus, as YYYY-MM-DD.
DateOf(d) ==
    <<"2", "0", "2", "4", "-", "0", "1", "-", ToString(d \div 10), ToString(d % 10)>>

\* The k-th ordinary article file: PerDate files a day, titled a, b, c, ...
PlainFile(k) ==
    DateOf(((k - 1) \div PerDate) + 1) \o <<"-">>
    \o <<<<"a", "b", "c", "d", "e">>[((k - 1) % PerDate) + 1]>> \o DOT_HTML

\* Files of the second day with titles of their own: one holding the
\* replacement pattern $&, one a placeholder marker, one an upper-case
\* letter, one a double quote; and two entries that are no articles.
DollarFile == DateOf(2) \o <<"-", "$", "&">> \o DOT_HTML
MarkerFile == DateOf(2) \o <<"-", PAGINATION_PLACEHOLDER>> \o DOT_HTML
UpperFile == DateOf(2) \o <<"-", "A">> \o DOT_HTML
QuoteFile == DateOf(2) \o <<"-", "\"", "a", "\"">> \o DOT_HTML
NotesFile == <<"n", "o", "t", "e", "s", ".", "t", "x", "t">>

\* The numbers of ordinary articles: none, one, a full page, and for the
\* last of MaxPages pages a corpus that just fills the page before it and
\* one that just reaches it.
PlainCounts ==
    {0, 1, POSTS_PER_PAGE, (MaxPages - 1) * POSTS_PER_PAGE,
     (MaxPages - 1) * POSTS_PER_PAGE + 1}

\* The directory listings, oldest file first (the program sorts them): the
\* ordinary files alone, a directory without articles, and a full page of
\* ordinary files after the files with titles of their own.
Plain(n) == [k \in 1..n |-> PlainFile(k)]
Listings ==
    {Plain(n) : n \in PlainCounts}
    \cup { <<INDEX_HTML, NotesFile>>,
           <<DollarFile>> \o Plain(POSTS_PER_PAGE),
           <<NotesFile, MarkerFile, UpperFile, QuoteFile>> \o Plain(POSTS_PER_PAGE) }

SourceDirs == {null} \cup {Some(l) : l \in Listings}

\* The template file: missing, or a document with each of the three markers
\* once.
Templates ==
    { null,
      Some(<<"<html>[header]", ARCHIVES_PLACEHOLDER, "[between]",
             PAGINATION_PLACEHOLDER, "[footer] (c) ", YEAR_PLACEHOLDER, "</html>">>) }

Init ==
    /\ pagesDir \in SourceDirs
    /\ template \in Templates
    /\ clock = FirstYear
    /\ site = null
    /\ exit = "none"
    /\ templateRead = FALSE
    /\ built = <<>>
    /\ lastRunYear = 0
    /\ stale = 0
    /\ rerun = FALSE
    /\ edited = FALSE
    /\ pc = "idle"
    /\ ParseIdle
    /\ PaginationIdle

\* Between two builds the source directory and the template are edited (all
\* the edits made between two builds are one step; what is remembered of the
\* run before them, beyond the output tree and the locals, is forgotten).
ChangeSource ==
    /\ ~edited
    /\ exit # "none"
    /\ pagesDir' \in SourceDirs
    /\ template' \in Templates
    /\ <<pagesDir', template'>> # <<pagesDir, template>>
    /\ edited' = TRUE
    /\ stale' = 0
    /\ rerun' = FALSE
    /\ UNCHANGED <<clock, site, exit, templateRead, built, lastRunYear, pc,
                   parseVars, paginationVars>>

\* A new year begins.
Tick ==
    /\ clock < LastYear
    /\ clock' = clock + 1
    /\ UNCHANGED <<pagesDir, template, site, exit, templateRead, built,
                   lastRunYear, stale, rerun, edited, pc, parseVars, paginationVars>>

Next == Run \/ ChangeSource \/ Tick

Spec == Init /\ [][Next]_vars

-----------------------------------------------------------------------------
(* SpecParse: getArticleFromFilename applied to a bounded set of file names *)

MaxChunks == 2

\* What a file name may begin with: well-formed date prefixes and near misses.
Prefixes ==
    { <<"2", "0", "2", "4", "-", "0", "3", "-", "0", "5", "-">>,
      <<"2", "0", "2", "4", "-", "0", "3", "-", "0", "5">>,
      <<"2", "0", "2", "4", "-", "3", "-", "0", "5", "-">>,
      <<"x", "2", "0", "2", "4", "-", "0", "3", "-", "0", "5", "-">>,
      <<"2", "0", "2", "4", "-", "0", "3", "-", "0", "a", "-">>,
      <<>> }

\* What it may end with.
Suffixes ==
    { DOT_HTML, <<".", "h", "t", "m">>, <<".", "H", "T", "M", "L">>,
      DOT_HTML \o <<LF>>, <<>> }

\* The pieces its middle is made of: the three escapes, parts of them that
\* join into an escape across a boundary, another escape, and plain characters.
Chunks ==
    { PCT_20, PCT_EM_DASH, PCT_FW_COLON,
      <<"%">>, <<"2", "0">>, <<"E", "2", "%", "8", "0", "%", "9", "4">>,
      <<"%", "4", "1">>, <<"a">>, <<LF>>, <<"\"">> }

RECURSIVE Bodies(_)
Bodies(n) ==
    IF n = 0 THEN {<<>>}
    ELSE LET shorter == Bodies(n - 1)
         IN  shorter \cup {b \o c : b \in shorter, c \in Chunks}

FileNames ==
    {INDEX_HTML} \cup {p \o b \o s : p \in Prefixes, b \in Bodies(MaxChunks), s \in Suffixes}

InitParse ==
    /\ file \in FileNames
    /\ article = null
    /\ pc = "call"
    /\ PaginationIdle
    /\ BuildIdle

Parse ==
    /\ pc = "call"
    /\ article' = getArticleFromFilename(file)
    /\ pc' = "done"
    /\ UNCHANGED <<file, paginationVars, buildVars>>

SpecParse == InitParse /\ [][Parse]_vars

-----------------------------------------------------------------------------
(* SpecPagination: generatePaginationHtml applied to every page of a site *)

MaxPage == 10

InitPagination ==
    /\ totalPages \in 1..MaxPage
    /\ currentPage \in 1..totalPages
    /\ paginationHtml = <<>>
    /\ pc = "call"
    /\ ParseIdle
    /\ BuildIdle

Paginate ==
    /\ pc = "call"
    /\ paginationHtml' = generatePaginationHtml(currentPage, totalPages)
    /\ pc' = "done"
    /\ UNCHANGED <<currentPage, totalPages, parseVars, buildVars>>

SpecPagination == InitPagination /\ [][Paginate]_vars

-----------------------------------------------------------------------------
(* Properties of getArticleFromFilename *)

\* f has the shape "dddd-dd-dd-" body ".html", the body being any tokens.
HasDateAndHtml(f) ==
    /\ Len(f) >= DatePrefixLen + Len(DOT_HTML)
    /\ \A i \in {1, 2, 3, 4, 6, 7, 9, 10} : f[i] \in Digits
    /\ \A i \in {5, 8, 11} : f[i] = "-"
    /\ SubSeq(f, Len(f) - 4, Len(f)) = DOT_HTML

\* f matches /^\d{4}-\d{2}-\d{2}-.*\.html$/ as ECMAScript evaluates it: "."
\* matches any character but a line terminator (".*" may give characters
\* back to "\.html", so the body is everything between prefix and ending).
MatchesArticleRegex(f) ==
    /\ HasDateAndHtml(f)
    /\ \A i \in (DatePrefixLen + 1)..(Len(f) - Len(DOT_HTML)) : f[i] \notin LineTerminators

IsArticleOf(a, f) ==
    /\ a # null
    /\ a[1].date = SubSeq(f, 1, 10)
    /\ Len(a[1].date) = 10
    /\ a[1].path = <<"pages/">> \o f
    /\ a[1].filename = f

\* C7 as stated: a file name that does not match
\* ^\d{4}-\d{2}-\d{2}-.*\.html$, or is index.html, yields no article, and every
\* other file name yields an article with its date prefix and pages/ path.
C7_AsStated ==
    pc = "done" =>
        IF ~MatchesArticleRegex(file) \/ file = INDEX_HTML
        THEN article = null
        ELSE IsArticleOf(article, file)

\* C7 as amended: the same with the body of the file name allowed to hold any
\* characters, line terminators included: no article unless the name starts
\* with dddd-dd-dd- and ends with .html, an article for every such name.
C7_ArticleIffDateAndHtml ==
    pc = "done" =>
        IF ~HasDateAndHtml(file) \/ file = INDEX_HTML
        THEN article = null
        ELSE IsArticleOf(article, file)

\* An accepted file name whose body holds a line terminator.
C7_Witness ==
    /\ pc = "done"
    /\ article # null
    /\ \E i \in 1..Len(file) : file[i] \in LineTerminators

\* The raw title: the file name without its 11-character date prefix and
\* its 5-character ending.
RawTitle(f) == SubSeq(f, DatePrefixLen + 1, Len(f) - Len(DOT_HTML))

\* One pass over the raw title, left to right: an occurrence of one of the
\* three escapes becomes its character, any other token is copied.
EscapeAt(s, i, esc) ==
    i + Len(esc) - 1 <= Len(s) /\ SubSeq(s, i, i + Len(esc) - 1) = esc

RECURSIVE DecodeThree(_, _)
DecodeThree(s, i) ==
    IF i > Len(s) THEN <<>>
    ELSE IF EscapeAt(s, i, PCT_20) THEN <<" ">> \o DecodeThree(s, i + 3)
    ELSE IF EscapeAt(s, i, PCT_EM_DASH) THEN <<EM_DASH>> \o DecodeThree(s, i + 9)
    ELSE IF EscapeAt(s, i, PCT_FW_COLON) THEN <<FW_COLON>> \o DecodeThree(s, i + 9)
    ELSE <<s[i]>> \o DecodeThree(s, i + 1)

\* C8: the title of an accepted file name is its raw title with every
\* occurrence of %20, %E2%80%94 and %EF%BC%9A replaced by a space, an em dash
\* and a fullwidth colon, and every other token (other %XX included) kept.
C8_TitleDecodesThreeEscapes ==
    (pc = "done" /\ article # null) =>
        article[1].title = DecodeThree(RawTitle(file), 1)

\* An accepted file name whose raw title is the first escape twice.
C8_Witness ==
    /\ pc = "done"
    /\ article # null
    /\ RawTitle(file) = PCT_20 \o PCT_20
    /\ article[1].title = <<" ", " ">>

-----------------------------------------------------------------------------
(* Properties of generatePaginationHtml *)

\* The targets of the links of html that carry the given label: the tokens
\* between an <a href=" and the label that closes it.
LinkTargets(html, label) ==
    { SubSeq(html, i + 1, j - 1) :
        <<i, j>> \in { p \in (1..Len(html)) \X (1..Len(html)) :
                        /\ p[1] < p[2]
                        /\ html[p[1]] = A_HREF
                        /\ html[p[2]] = label
                        /\ \A k \in (p[1] + 1)..(p[2] - 1) :
                              html[k] \notin {A_HREF, PREV_LABEL, NEXT_LABEL} } }

\* The <<current, total>> pairs the page indicators of html show.
Indicators(html) ==
    { <<html[i + 1], html[i + 3]>> :
        i \in { k \in 1..Len(html) :
                  /\ k + 4 <= Len(html)
                  /\ html[k] = CURRENT_OPEN
                  /\ html[k + 2] = CURRENT_SEP
                  /\ html[k + 4] = CURRENT_CLOSE } }

\* C6: a previous link iff currentPage > 1, to "/" from page 2 and to
\* /archives/<currentPage-1>/ otherwise; a next link iff currentPage <
\* totalPages, to /archives/<currentPage+1>/; always the page indicator.
C6_PaginationLinks ==
    pc = "done" =>
        /\ LinkTargets(paginationHtml, PREV_LABEL) =
               IF currentPage = 1 THEN {}
               ELSE IF currentPage = 2 THEN {<<"/">>}
               ELSE {<<"/archives/", ToString(currentPage - 1), "/">>}
        /\ LinkTargets(paginationHtml, NEXT_LABEL) =
               IF currentPage < totalPages
               THEN {<<"/archives/", ToString(currentPage + 1), "/">>}
               ELSE {}
        /\ Cardinality({i \in 1..Len(paginationHtml) : paginationHtml[i] = A_HREF}) =
               (IF currentPage > 1 THEN 1 ELSE 0) + (IF currentPage < totalPages THEN 1 ELSE 0)
        /\ Indicators(paginationHtml) = {<<ToString(currentPage), ToString(totalPages)>>}

\* Page 2 of 3: a previous link to the root and a next link to page 3.
C6_Witness ==
    /\ pc = "done"
    /\ currentPage = 2
    /\ totalPages = 3
    /\ LinkTargets(paginationHtml, PREV_LABEL) = {<<"/">>}
    /\ LinkTargets(paginationHtml, NEXT_LABEL) = {<<"/archives/", "3", "/">>}

-----------------------------------------------------------------------------
(* Properties of run *)

\* The last run built the site from the source as it is now.
Ran == exit # "none" /\ ~edited /\ pagesDir # null
Completed == Ran /\ exit = "ok"

Listing == {pagesDir[1][k] : k \in 1..Len(pagesDir[1])}

\* The article files of the source directory and their number.
ArticleFiles == {f \in Listing : HasDateAndHtml(f)}
ArticleCount == Cardinality(ArticleFiles)

\* ceil(n / 10): the least t with 10 * t >= n.
CeilTenth(n) == CHOOSE t \in 0..n : 10 * t >= n /\ (t = 0 \/ 10 * (t - 1) < n)

\* The place of an article file in the filename-descending list: one more
\* than the number of article files that compare greater.
Rank(f) == 1 + Cardinality({g \in ArticleFiles : localeCompare(g, f) > 0})

\* The k-th smallest element of a set of numbers.
Kth(S, k) == CHOOSE p \in S : Cardinality({q \in S : q <= p}) = k

\* The first index after p at which html holds tok.
NextToken(html, p, tok) ==
    CHOOSE q \in (p + 1)..Len(html) :
        html[q] = tok /\ \A j \in (p + 1)..(q - 1) : html[j] # tok

\* The link targets of the articles a fragment lists, top to bottom: the
\* text between <a href="/ and the end of the attribute.
ItemPositions(html) == {p \in 1..Len(html) : html[p] = ITEM_OPEN}
RenderedAt(html, p) == SubSeq(html, p + 1, NextToken(html, p, ITEM_LINK) - 1)
RenderedPaths(html) ==
    [k \in 1..Cardinality(ItemPositions(html)) |->
        RenderedAt(html, Kth(ItemPositions(html), k))]

PathOfFile(f) == <<"pages/">> \o f

\* C1: the build has ceil(n/10) pages; page i lists exactly the articles at
\* places (i-1)*10+1 .. i*10 of the filename-descending list, each once; no
\* page is empty, every page but the last lists 10 articles, and the last
\* lists n - 10*(totalPages-1).
C1_PagesAreSlices ==
    (Completed /\ ArticleCount >= 1) =>
        LET n == ArticleCount
            total == CeilTenth(n)
        IN  /\ Len(built) = total
            /\ \A i \in 1..Len(built) :
                  LET r == RenderedPaths(built[i].articlesHtml)
                      expected == { PathOfFile(f) : f \in
                                      { g \in ArticleFiles :
                                          Rank(g) \in ((i - 1) * 10 + 1)..(i * 10) } }
                  IN  /\ {r[k] : k \in 1..Len(r)} = expected
                      /\ Len(r) = Cardinality(expected)
                      /\ Len(r) >= 1
                      /\ i < total => Len(r) = 10
                      /\ i = total => Len(r) = n - 10 * (total - 1)

\* A site of three pages whose last page lists a single article.
C1_Witness ==
    /\ Completed
    /\ Len(built) = 3
    /\ Len(RenderedPaths(built[1].articlesHtml)) = 10
    /\ Len(RenderedPaths(built[3].articlesHtml)) = 1

\* The file at a path of the output tree.
FileAt(path) == (CHOOSE e \in site[1] : e[1] = path)[2]

\* The output path of page i as the specification gives it.
PagePath(i) ==
    IF i = 1 THEN <<INDEX_HTML>> ELSE <<ARCHIVES, <<ToString(i)>>, INDEX_HTML>>

\* The template with each marker replaced, where it stands, by its text.
VerbatimFill(tpl, articlesHtml, pagHtml, year) ==
    Concat([k \in 1..Len(tpl) |->
               IF tpl[k] = ARCHIVES_PLACEHOLDER THEN articlesHtml
               ELSE IF tpl[k] = PAGINATION_PLACEHOLDER THEN pagHtml
               ELSE IF tpl[k] = YEAR_PLACEHOLDER THEN <<year>>
               ELSE <<tpl[k]>>],
           1, Len(tpl))

\* C2: every page written is the template with each of the three markers
\* replaced once by the page's article-list fragment, its pagination
\* fragment and the year, each verbatim at the place of its own marker,
\* whatever the article titles hold.
C2_AsStated ==
    (Completed /\ ArticleCount >= 1) =>
        \A i \in 1..Len(built) :
            FileAt(PagePath(i)) =
                VerbatimFill(template[1], built[i].articlesHtml,
                             built[i].paginationHtml, ToString(lastRunYear))

\* The page files of the output tree: everything outside pages/.
PageFiles == {e \in site[1] : e[1][1] # PAGES}
CopiedFiles == {e \in site[1] : e[1][1] = PAGES}

\* C3: after a completed build with n >= 1 articles, whatever was built
\* before, the page files are exactly index.html and archives/<i>/index.html
\* for i in 2..ceil(n/10), and the copied assets exactly those of the source.
C3_OnlyTheLatestBuild ==
    (Completed /\ ArticleCount >= 1) =>
        /\ {e[1] : e \in PageFiles} =
              {<<INDEX_HTML>>} \cup
              { <<ARCHIVES, <<ToString(i)>>, INDEX_HTML>> :
                  i \in 2..CeilTenth(ArticleCount) }
        /\ Cardinality(PageFiles) = CeilTenth(ArticleCount)
        /\ CopiedFiles = { <<<<PAGES, f>>, BytesOf(f)>> : f \in Listing }

\* A completed build of a single page that removed the archive pages of an
\* earlier, larger build.
C3_Witness ==
    /\ Completed
    /\ ArticleCount >= 1
    /\ CeilTenth(ArticleCount) = 1
    /\ stale >= 2
    /\ {e[1] : e \in PageFiles} = {<<INDEX_HTML>>}

\* C4 as stated: a run over a source unchanged since the last run leaves
\* the output tree as it was.
C4_AsStated ==
    [][(exit # "none" /\ ~edited /\ ~edited' /\ clock' = clock) => site' = site]_vars

\* C4 as amended: the same when both runs take place in the same calendar
\* year.
C4_IdempotentWithinYear ==
    [][(exit # "none" /\ ~edited /\ ~edited' /\ clock' = clock /\ lastRunYear = clock)
          => (site' = site /\ exit' = exit)]_vars

\* A completed build of several pages that followed a build of the same
\* source.
C4_Witness ==
    /\ Completed
    /\ rerun
    /\ Len(built) >= 2
    /\ lastRunYear = clock

\* C5: a build of a source with no article file ends without error, leaves
\* the output tree holding the copied assets and nothing else, and does not
\* read the template.
C5_EmptyBuild ==
    (Ran /\ ArticleCount = 0) =>
        /\ exit = "ok"
        /\ ~templateRead
        /\ built = <<>>
        /\ PageFiles = {}
        /\ site = Some({ <<<<PAGES, f>>, BytesOf(f)>> : f \in Listing })

\* Such a build over a directory that holds files, none of them an article,
\* with the template missing, after a build that had written pages.
C5_Witness ==
    /\ Ran
    /\ ArticleCount = 0
    /\ Listing # {}
    /\ template = null
    /\ exit = "ok"
    /\ stale >= 1

\* The dates a fragment labels, top to bottom, and where it labels them.
HeaderPositions(html) == {p \in 1..Len(html) : html[p] = GROUP_OPEN}
HeaderAt(html, p) == SubSeq(html, p + 1, NextToken(html, p, GROUP_HEAD_CLOSE) - 1)
Headers(html) ==
    [k \in 1..Cardinality(HeaderPositions(html)) |->
        HeaderAt(html, Kth(HeaderPositions(html), k))]

\* The date under which the item at position p of a fragment is listed.
GroupOfItem(html, p) ==
    HeaderAt(html, CHOOSE h \in HeaderPositions(html) :
                      h < p /\ \A g \in HeaderPositions(html) : g < p => g <= h)

\* A date YYYY-MM-DD as the number YYYYMMDD.
DigitValue(c) == CHOOSE v \in 0..9 : ToString(v) = c
DateNumber(d) ==
    LET v(k) == DigitValue(d[k])
    IN  ((((((v(1) * 10 + v(2)) * 10 + v(3)) * 10 + v(4)) * 10 + v(6)) * 10 + v(7)) * 10
            + v(9)) * 10 + v(10)

\* The date in a link target pages/YYYY-MM-DD-...
DateOfPath(path) == SubSeq(path, 2, 11)

\* The link targets of all pages, page 1 first.
AllRendered ==
    Concat([i \in 1..Len(built) |-> RenderedPaths(built[i].articlesHtml)], 1, Len(built))

\* C9: read page by page and top to bottom, the fragments list every
\* article once, in descending order of file names, dates never increasing;
\* in each fragment the dates labelled descend strictly, every article
\* stands under its own date, and the articles come in the order of the slice.
C9_NewestFirst ==
    (Completed /\ ArticleCount >= 1) =>
        /\ Len(AllRendered) = ArticleCount
        /\ \A f \in ArticleFiles : AllRendered[Rank(f)] = PathOfFile(f)
        /\ \A k \in 1..(Len(AllRendered) - 1) :
              /\ localeCompare(SubSeq(AllRendered[k], 2, Len(AllRendered[k])),
                               SubSeq(AllRendered[k + 1], 2, Len(AllRendered[k + 1]))) > 0
              /\ DateNumber(DateOfPath(AllRendered[k])) >=
                    DateNumber(DateOfPath(AllRendered[k + 1]))
        /\ \A i \in 1..Len(built) :
              LET html == built[i].articlesHtml
                  hs == Headers(html)
              IN  /\ \A k \in 1..(Len(hs) - 1) : DateNumber(hs[k]) > DateNumber(hs[k + 1])
                  /\ \A p \in ItemPositions(html) :
                        GroupOfItem(html, p) = DateOfPath(RenderedAt(html, p))
                  /\ RenderedPaths(html) =
                        [k \in 1..Len(built[i].pageArticles) |-> built[i].pageArticles[k].path]

\* A site of three pages where the articles of one date are split between
\* page 1 and page 2, so that both pages label that date.
C9_Witness ==
    /\ Completed
    /\ Len(built) = 3
    /\ \E d \in {Headers(built[1].articlesHtml)[k] :
                    k \in 1..Len(Headers(built[1].articlesHtml))} :
          d = Headers(built[2].articlesHtml)[1]

\* The URL path of a directory of the output tree.
UrlOfDir(dir) ==
    IF dir = <<>> THEN <<"/">>
    ELSE IF Len(dir) = 2 /\ dir[1] = ARCHIVES /\ Len(dir[2]) = 1
         THEN <<"/archives/", dir[2][1], "/">>
         ELSE <<"[no page directory]">>

DirOf(path) == SubSeq(path, 1, Len(path) - 1)

\* The page files that show i as their page number.
PagesNumbered(i) ==
    {e \in PageFiles : \E t \in Indicators(e[2]) : t[1] = ToString(i)}

\* C10: after a completed build of totalPages pages every page number is
\* that of one page file; the next link of page i, there iff i < totalPages,
\* leads to the directory of page i+1, and its previous link, there iff
\* i > 1, to the directory of page i-1; page 1 is at "/".
C10_NavigationConsistent ==
    (Completed /\ ArticleCount >= 1) =>
        LET total == CeilTenth(ArticleCount)
        IN  /\ \A e \in PageFiles : \E i \in 1..total : e \in PagesNumbered(i)
            /\ \A i \in 1..total :
                  /\ Cardinality(PagesNumbered(i)) = 1
                  /\ \A e \in PagesNumbered(i) :
                        /\ (i = 1) = (UrlOfDir(DirOf(e[1])) = <<"/">>)
                        /\ LinkTargets(e[2], NEXT_LABEL) =
                              IF i = total THEN {}
                              ELSE {UrlOfDir(DirOf(o[1])) : o \in PagesNumbered(i + 1)}
                        /\ LinkTargets(e[2], PREV_LABEL) =
                              IF i = 1 THEN {}
                              ELSE {UrlOfDir(DirOf(o[1])) : o \in PagesNumbered(i - 1)}

\* A site of three pages: page 2 links back to "/" and on to /archives/3/.
C10_Witness ==
    /\ Completed
    /\ CeilTenth(ArticleCount) = 3
    /\ \E e \in PageFiles :
          /\ e[1] = <<ARCHIVES, <<"2">>, INDEX_HTML>>
          /\ LinkTargets(e[2], PREV_LABEL) = {<<"/">>}
          /\ LinkTargets(e[2], NEXT_LABEL) = {<<"/archives/", "3", "/">>}

====
